---- MODULE Spec2Model ----
(***************************************************************************)
(* Model of AppComponent (app.component.ts): the map's device-list         *)
(* pipeline (bounds -> /device fetch -> registry merge -> marker) and the   *)
(* per-device chart panel (popup -> chart -> /air fetch -> series).         *)
(*                                                                         *)
(* Everything runs on one UI thread: each action below is one event        *)
(* handler running to completion (a DOM event, a timer, or the delivery of *)
(* an HTTP response to its subscriber).                                     *)
(***************************************************************************)
EXTENDS Integers, Sequences, FiniteSets, TLC

(***************************************************************************)
(* Bounds of the model.                                                    *)
(***************************************************************************)
MaxTs == 3          \* device timestamps are drawn from 1..MaxTs
MaxResults == 2     \* longest `results` array of a /device response
MaxItems == 3       \* records ever accepted into the registry
MaxRequests == 2    \* view-settled events
MaxCharts == 2      \* charts ever created
MaxAirRequests == 2 \* /air requests ever sent
MaxReadings == 2    \* longest `results` array of an /air response

\* Device identifiers the server may send.  "constructor" is a name every
\* plain JavaScript object inherits from Object.prototype.
Ids == {"A", "B", "constructor"}
\* Property names an object literal {} inherits (a representative subset).
ObjectPrototypeKeys == {"constructor", "toString", "valueOf", "hasOwnProperty", "__proto__"}
\* Bounding boxes map.getBounds() can return.
Boxes == {"box1", "box2"}
\* Values of the wall clock, new Date().getTime(), in epoch milliseconds.
ClockValues == {1000000, 1050000, 4800000}
\* Timestamps and PM 2.5 values of the readings an /air response may hold.
ReadingTimes == {1000, 2000}
Pm25Values == {35}

VARIABLES
  now,          \* new Date().getTime()
  bounds,       \* AppComponent.bounds: the BehaviorSubject's current value
  subscribed,   \* the ngOnInit pipeline's subscription is still open
  inflight,     \* /device requests whose response the pipeline still waits for
  issued,       \* number of /device requests sent so far
  settled,      \* number of moveend events handled so far
  answered,     \* history: requests whose response was delivered to the pipeline
  items,        \* heap of accepted Device objects, by object identity
  devices,      \* AppComponent.devices: own properties, identifier -> object
  onMap,        \* objects whose marker is currently added to the map
  seen,         \* history: timestamps delivered to the merge step, per identifier
  lastMerge,    \* history: what the merge step did with each record of the last response
  lastResp,     \* history: the last /device outcome delivered to the pipeline
  popup,        \* the object whose marker popup is open (0: none)
  charts,       \* every Highcharts.Chart created, by object identity
  loadTimers,   \* charts whose load handler's delay(10) has not fired yet
  airInflight,  \* /air requests awaiting their response
  airIssued,    \* number of /air requests sent so far
  lastAir       \* history: the last /air request answered and its outcome

deviceVars == <<bounds, subscribed, inflight, issued, settled, answered,
                devices, onMap, seen, lastMerge, lastResp>>
chartVars == <<charts, loadTimers, airInflight, airIssued, lastAir>>
vars == <<now, items, popup, deviceVars, chartVars>>

(***************************************************************************)
(* JavaScript values of the window fields (basetime, endtime): a number,   *)
(* undefined, or NaN.                                                       *)
(***************************************************************************)
Num(n) == [tag |-> "number", v |-> n]
Undefined == [tag |-> "undefined", v |-> 0]
NaN == [tag |-> "NaN", v |-> 0]

\* The t query parameter: Math.floor(new Date().getTime() / (5 * 60 * 1000)) * 5 * 60 * 1000
\* (\div rounds toward minus infinity, as Math.floor does).
TokenRounded(t) == ((t + ((5 * 60 * 1000) \div 2)) \div (5 * 60 * 1000)) * 5 * 60 * 1000
Token(t) == (t \div (5 * 60 * 1000)) * 5 * 60 * 1000

(***************************************************************************)
(* /device responses.                                                      *)
(***************************************************************************)
\* A device record as the server sends it (lat and long are carried along
\* untouched and read only to place the marker).
Records == [device : Ids, timestamp : 1..MaxTs]

RECURSIVE SeqsUpTo(_, _)
SeqsUpTo(S, n) ==
  IF n = 0 THEN {<<>>}
  ELSE LET shorter == SeqsUpTo(S, n - 1)
       IN shorter \cup {Append(q, x) : q \in {r \in shorter : Len(r) = n - 1}, x \in S}

ResultLists == SeqsUpTo(Records, MaxResults)

\* A decoded body: null, a string (a non-JSON error page), or an object
\* with or without a status and with or without a results array.
NullBody == [shape |-> "null", status |-> "none", hasResults |-> FALSE, results |-> <<>>]
TextBody == [shape |-> "text", status |-> "none", hasResults |-> FALSE, results |-> <<>>]
ObjectBodies ==
  {[shape |-> "object", status |-> s, hasResults |-> TRUE, results |-> r] :
      s \in {"ok", "error", "none"}, r \in ResultLists}
  \cup
  {[shape |-> "object", status |-> s, hasResults |-> FALSE, results |-> <<>>] :
      s \in {"ok", "error", "none"}}
Bodies == {NullBody, TextBody} \cup ObjectBodies

\* How http.get('/device') can end: a 2xx response with a body, an
\* HttpErrorResponse whose error field is a body, or any other error.
Outcomes ==
  {[kind |-> k, body |-> b] : k \in {"ok", "httpError"}, b \in Bodies}
  \cup {[kind |-> "otherError", body |-> NullBody]}

\* catchError of the inner observable: what is handed to the status filter.
CatchErrorDropBody(outcome) ==
  IF outcome.kind = "ok"
  THEN outcome.body
  ELSE [shape |-> "object", status |-> "error", hasResults |-> FALSE, results |-> <<>>]
CatchError(outcome) ==
  IF outcome.kind = "ok" THEN outcome.body
  ELSE IF outcome.kind = "httpError" THEN outcome.body
  ELSE [shape |-> "object", status |-> "error", hasResults |-> FALSE, results |-> <<>>]

\* filter(resp => resp.status !== 'error') reads a property of resp: a
\* TypeError when resp is null or undefined.
StatusFilterThrows(resp) == resp.shape = "null"
StatusFilterPasses(resp) == resp.status # "error"
\* flatMap(resp => resp.results): undefined is not an observable input.
FlatMapThrows(resp) == ~resp.hasResults

(***************************************************************************)
(* The registry merge (filter + tap of ngOnInit) and onAddMarker.           *)
(***************************************************************************)
\* this.devices[id] is truthy: an own property, or one inherited by {}.
Stored(devs, id) == id \in DOMAIN devs \/ id \in ObjectPrototypeKeys

\* this.devices[id].timestamp
StoredTimestamp(heap, devs, id) ==
  IF id \in DOMAIN devs THEN Num(heap[devs[id]].timestamp) ELSE Undefined

\* item.timestamp > this.devices[item.device].timestamp
IsNewerOrEqual(ts, stored) == stored.tag = "number" /\ ts >= stored.v
IsNewerAlways(ts, stored) == stored.tag = "number"
IsNewer(ts, stored) == stored.tag = "number" /\ ts > stored.v

\* A freshly parsed Device object.
NewDevice(item) ==
  [device |-> item.device, timestamp |-> item.timestamp, marker |-> FALSE,
   chart |-> 0, basetime |-> Undefined, endtime |-> Undefined]

\* onAddMarker(item): item.marker = L.marker(...).addTo(this.map)
\* (and binds the popup and its popupopen handler to the new marker).
OnAddMarker(st, obj) ==
  [st EXCEPT !.items[obj].marker = TRUE, !.onMap = @ \cup {obj}]

\* if (stored.marker) { stored.marker.remove(); }
\* Removing a marker from the map closes its popup.
RemoveMarkerNoop(st, obj) == st
RemoveMarker(st, obj) ==
  IF st.items[obj].marker
  THEN [st EXCEPT !.onMap = @ \ {obj}, !.popup = IF @ = obj THEN 0 ELSE @]
  ELSE st

\* History of one record's pass through the merge: the object stored under
\* its identifier before and after, whether the filter kept the record, the
\* marker removed from the map and the marker added to it (0: none).
Entry(item, before, after, kept, removed, added) ==
  [device |-> item.device, timestamp |-> item.timestamp, stored |-> before,
   after |-> after, kept |-> kept, removed |-> removed, added |-> added]

\* One record through the merge filter and, when it is kept, the tap.
\* st = [items, devices, onMap, popup, log]; log is the history of this response.
MergeItem(st, item) ==
  LET id == item.device
      obj == Len(st.items) + 1
      before == IF id \in DOMAIN st.devices THEN st.devices[id] ELSE 0
      put == [st EXCEPT !.items = Append(@, NewDevice(item)),
                        !.devices = (id :> obj) @@ @]
  IN IF ~Stored(st.devices, id)
     THEN [OnAddMarker(put, obj) EXCEPT
             !.log = Append(@, Entry(item, before, obj, TRUE, 0, obj))]
     ELSE IF IsNewer(item.timestamp, StoredTimestamp(st.items, st.devices, id))
     THEN LET cleared == RemoveMarker(put, before)
              removed == IF st.items[before].marker THEN before ELSE 0
          IN [OnAddMarker(cleared, obj) EXCEPT
                !.log = Append(@, Entry(item, before, obj, TRUE, removed, obj))]
     ELSE [st EXCEPT !.log = Append(@, Entry(item, before, before, FALSE, 0, 0))]

RECURSIVE MergeAll(_, _)
MergeAll(st, results) ==
  IF results = <<>> THEN st
  ELSE MergeAll(MergeItem(st, Head(results)), Tail(results))

RECURSIVE SeeAll(_, _)
SeeAll(s, results) ==
  IF results = <<>> THEN s
  ELSE SeeAll([s EXCEPT ![Head(results).device] = @ \cup {Head(results).timestamp}],
              Tail(results))

(***************************************************************************)
(* Initial state: after the constructor, ngOnInit and ngAfterViewInit.      *)
(* The BehaviorSubject holds undefined, which filter(bound => !!bound)      *)
(* drops, so no request has been sent.                                      *)
(***************************************************************************)
Init ==
  /\ now = 1000000
  /\ bounds = "undefined"
  /\ subscribed = TRUE
  /\ inflight = {}
  /\ issued = 0
  /\ settled = 0
  /\ answered = {}
  /\ items = <<>>
  /\ devices = <<>>
  /\ onMap = {}
  /\ seen = [id \in Ids |-> {}]
  /\ lastMerge = <<>>
  /\ lastResp = [kind |-> "none", status |-> "none"]
  /\ popup = 0
  /\ charts = <<>>
  /\ loadTimers = {}
  /\ airInflight = {}
  /\ airIssued = 0
  /\ lastAir = [gen |-> 0, chart |-> 0, start |-> Undefined, end |-> Undefined,
                kind |-> "none", hasResults |-> FALSE,
                results |-> <<>>]

\* Wall-clock time passes.
Tick ==
  /\ \E t \in ClockValues : t > now /\ now' = t
  /\ UNCHANGED <<items, popup, deviceVars, chartVars>>

\* switchMap: subscribing to the new inner request unsubscribes from the
\* previous one, which aborts it.
MergeMapInner(pending, request) == pending \cup {request}
SwitchMap(pending, request) == {request}

\* onMoveEnd: this.bounds.next(this.map.getBounds()), and the pipeline's
\* filter / map / switchMap stages, which run synchronously inside next().
OnMoveEnd(box) ==
  /\ settled < MaxRequests
  /\ settled' = settled + 1
  /\ bounds' = box
  /\ IF subscribed
     THEN LET request == [gen |-> issued + 1, box |-> box, t |-> Token(now), at |-> now]
          IN /\ inflight' = SwitchMap(inflight, request)
             /\ issued' = issued + 1
     ELSE UNCHANGED <<inflight, issued>>
  /\ UNCHANGED <<now, answered, subscribed, items, devices, onMap, seen, lastMerge, lastResp,
                 popup, chartVars>>

\* The response (or failure) of an awaited /device request reaches the
\* pipeline: catchError, status filter, flatMap, merge filter, tap.
DeviceResponse(request, outcome) ==
  LET resp == CatchError(outcome)
      merged == MergeAll([items |-> items, devices |-> devices, onMap |-> onMap,
                          popup |-> popup, log |-> <<>>], resp.results)
  IN /\ request \in inflight
     /\ lastResp' = [kind |-> outcome.kind, status |-> outcome.body.status]
     /\ IF StatusFilterThrows(resp) \/ (StatusFilterPasses(resp) /\ FlatMapThrows(resp))
        THEN \* the error reaches subscribe(), which has no error handler:
             \* the subscription is closed
             /\ subscribed' = FALSE
             /\ inflight' = {}
             /\ lastMerge' = <<>>
             /\ UNCHANGED <<items, devices, onMap, popup, seen>>
        ELSE IF ~StatusFilterPasses(resp)
        THEN /\ inflight' = inflight \ {request}
             /\ lastMerge' = <<>>
             /\ UNCHANGED <<subscribed, items, devices, onMap, popup, seen>>
        ELSE /\ Len(merged.items) <= MaxItems
             /\ inflight' = inflight \ {request}
             /\ items' = merged.items
             /\ devices' = merged.devices
             /\ onMap' = merged.onMap
             /\ popup' = merged.popup
             /\ lastMerge' = merged.log
             /\ seen' = SeeAll(seen, resp.results)
             /\ UNCHANGED subscribed
     /\ answered' = answered \cup {request.gen}
     /\ UNCHANGED <<now, bounds, issued, settled, chartVars>>

NextDevices ==
  \/ \E box \in Boxes : OnMoveEnd(box)
  \/ \E request \in inflight, outcome \in Outcomes : DeviceResponse(request, outcome)

SpecDevices == Init /\ [][NextDevices]_vars

(***************************************************************************)
(* The chart panel: onShowChart and onLoadSensorData.                       *)
(***************************************************************************)
\* a - n in JavaScript: NaN unless a is a number.
Sub(a, n) == IF a.tag = "number" THEN Num(a.v - n) ELSE NaN
\* if (a) for a number, undefined or NaN.
Truthy(a) == a.tag = "number" /\ a.v # 0

\* Math.round((new Date().getTime() - device.basetime) / 3600000)
HoursAgo(t, basetime) ==
  IF basetime.tag = "number"
  THEN Num((2 * (t - basetime.v) + 3600000) \div (2 * 3600000))
  ELSE NaN

\* A reading of an /air response.
Readings ==
  [timestamp : ReadingTimes, temperature : {20}, humidity : {50}, pm10 : {40},
   pm25 : Pm25Values]
ReadingLists == SeqsUpTo(Readings, MaxReadings)

\* How http.get('/air') can end: a body with a results array, a body
\* without one, or an error.
AirOutcomes ==
  {[kind |-> "ok", hasResults |-> TRUE, results |-> r] : r \in ReadingLists}
  \cup {[kind |-> "ok", hasResults |-> FALSE, results |-> <<>>],
        [kind |-> "error", hasResults |-> FALSE, results |-> <<>>]}

\* The value a reading contributes to the series with index key.
MetricValue(item, key) ==
  CASE key = 0 -> item.temperature
    [] key = 1 -> item.humidity
    [] key = 2 -> item.pm10
    [] key = 3 -> item.pm25

\* flatMap / groupBy / map / toArray: the [time, value] pairs of one
\* metric, in the order of the readings in the response.
SeriesData(results, key) ==
  [i \in 1..Len(results) |->
     <<results[i].timestamp + 9 * 60 * 60 * 1000, MetricValue(results[i], key)>>]

\* A chart as Highcharts.chart(container, {...}) returns it: four empty
\* series (series[key + 1] here is chart.series[key]) and the first subtitle.
\* labels counts the "no data" labels added and not yet destroyed.  steps and
\* initial are history: the step-back clicks on this chart and the basetime
\* its load handler set.
NewChart(obj) ==
  [target |-> obj, series |-> <<<<>>, <<>>, <<>>, <<>>>>, destroyed |-> FALSE,
   labels |-> 0, subtitle |-> [tag |-> "recent3h", v |-> 0],
   steps |-> 0, initial |-> Undefined]

\* The /air request onLoadSensorData builds from the target's window; the
\* end parameter is set only if (target.endtime).
AirRequest(c, device, gen, t) ==
  [gen |-> gen, chart |-> c, device |-> device.device, start |-> device.basetime,
   end |-> IF Truthy(device.endtime) THEN device.endtime ELSE Undefined,
   count |-> 500, t |-> Token(t), at |-> t]

\* The popup of a marker on the map opens (the marker is clicked): the
\* popupopen handler runs onShowChart.  Highcharts.chart creates a chart in
\* the popup's container, destroying a chart the container already holds;
\* its load event starts the delay(10); the step-back button is added.
\* Opening a popup closes the popup that was open.
OnShowChart(obj) ==
  LET c == Len(charts) + 1
  IN /\ obj \in onMap
     /\ popup # obj
     /\ Len(charts) < MaxCharts
     /\ popup' = obj
     /\ charts' = Append([k \in 1..Len(charts) |->
                            IF charts[k].target = obj
                            THEN [charts[k] EXCEPT !.destroyed = TRUE]
                            ELSE charts[k]],
                         NewChart(obj))
     /\ items' = [items EXCEPT ![obj].chart = c]
     /\ loadTimers' = loadTimers \cup {c}
     /\ UNCHANGED <<now, deviceVars, airInflight, airIssued, lastAir>>

\* The open popup is closed (a click on the map or on its close button).
PopupClose ==
  /\ popup # 0
  /\ popup' = 0
  /\ UNCHANGED <<now, items, deviceVars, chartVars>>

\* Math.floor((new Date().getTime() - 150 * 60 * 1000) / (60 * 60 * 1000)) * 60 * 60 * 1000
DefaultBasetimeUnrounded(t) == Num(t - 150 * 60 * 1000)
DefaultBasetime(t) ==
  Num(((t - 150 * 60 * 1000) \div (60 * 60 * 1000)) * 60 * 60 * 1000)

\* The delay(10) of a chart's load handler fires: the target's window is
\* set to start at (now - 150 min) rounded down to the hour, without an
\* end, and the sensor data are requested.
ChartLoad(c) ==
  LET obj == charts[c].target
      basetime == DefaultBasetime(now)
      device == [items[obj] EXCEPT !.basetime = basetime, !.endtime = Undefined]
  IN /\ c \in loadTimers
     /\ airIssued < MaxAirRequests
     /\ loadTimers' = loadTimers \ {c}
     /\ items' = [items EXCEPT ![obj] = device]
     /\ charts' = [charts EXCEPT ![c].initial = basetime]
     /\ airInflight' = airInflight \cup {AirRequest(c, device, airIssued + 1, now)}
     /\ airIssued' = airIssued + 1
     /\ UNCHANGED <<now, popup, deviceVars, lastAir>>

\* The step-back button of a chart is clicked.  The button exists from the
\* end of onShowChart until the chart is destroyed, and can be clicked while
\* the chart's popup is open.
StepBack(c) ==
  LET obj == charts[c].target
      device == [items[obj] EXCEPT !.endtime = items[obj].basetime,
                                   !.basetime = Sub(items[obj].basetime, 3 * 60 * 60 * 1000)]
  IN /\ c \in 1..Len(charts)
     /\ ~charts[c].destroyed
     /\ popup = obj
     /\ airIssued < MaxAirRequests
     /\ items' = [items EXCEPT ![obj] = device]
     /\ airInflight' = airInflight \cup {AirRequest(c, device, airIssued + 1, now)}
     /\ airIssued' = airIssued + 1
     /\ charts' = [charts EXCEPT ![c].subtitle =
                                   [tag |-> "hoursAgo", v |-> HoursAgo(now, device.basetime)],
                                 ![c].steps = @ + 1]
     /\ UNCHANGED <<now, popup, deviceVars, loadTimers, lastAir>>

\* The response (or failure) of an /air request reaches onLoadSensorData's
\* pipeline.  With readings, each metric's group ends in setData on its
\* series; a response without readings forms no group.  A missing results
\* array or an error goes to catchError, which adds the "no data" label and
\* starts its delay(2000).  A destroyed chart has neither series nor
\* renderer: both paths throw and change nothing.
AirResponse(request, outcome) ==
  LET c == request.chart
  IN /\ request \in airInflight
     /\ airInflight' = airInflight \ {request}
     /\ lastAir' = [gen |-> request.gen, chart |-> c, start |-> request.start,
                    end |-> request.end, kind |-> outcome.kind,
                    hasResults |-> outcome.hasResults, results |-> outcome.results]
     /\ charts' =
          IF charts[c].destroyed THEN charts
          ELSE IF outcome.kind = "ok" /\ outcome.hasResults
          THEN IF outcome.results = <<>> THEN charts
               ELSE [charts EXCEPT ![c].series =
                       [k \in 1..4 |-> SeriesData(outcome.results, k - 1)]]
          ELSE [charts EXCEPT ![c].labels = @ + 1]
     /\ UNCHANGED <<now, items, popup, deviceVars, loadTimers, airIssued>>

\* The delay(2000) of a "no data" label fires: the label is destroyed.
LabelTimerKeepsLabel(c) ==
  /\ c \in 1..Len(charts)
  /\ charts[c].labels > 0
  /\ UNCHANGED vars
LabelTimer(c) ==
  /\ c \in 1..Len(charts)
  /\ charts[c].labels > 0
  /\ charts' = [charts EXCEPT ![c].labels = @ - 1]
  /\ UNCHANGED <<now, items, popup, deviceVars, loadTimers, airInflight, airIssued, lastAir>>

\* The state after the first moveend and a first /device response with one
\* record each of devices "A" and "B".
FirstResults == <<[device |-> "A", timestamp |-> 1], [device |-> "B", timestamp |-> 1]>>
InitChart ==
  LET merged == MergeAll([items |-> <<>>, devices |-> <<>>, onMap |-> {},
                          popup |-> 0, log |-> <<>>], FirstResults)
  IN /\ now = 1000000
     /\ bounds = "box1"
     /\ subscribed = TRUE
     /\ inflight = {}
     /\ issued = 1
     /\ settled = 1
     /\ answered = {1}
     /\ items = merged.items
     /\ devices = merged.devices
     /\ onMap = merged.onMap
     /\ seen = SeeAll([id \in Ids |-> {}], FirstResults)
     /\ lastMerge = merged.log
     /\ lastResp = [kind |-> "ok", status |-> "ok"]
     /\ popup = 0
     /\ charts = <<>>
     /\ loadTimers = {}
     /\ airInflight = {}
     /\ airIssued = 0
     /\ lastAir = [gen |-> 0, chart |-> 0, start |-> Undefined, end |-> Undefined,
                kind |-> "none", hasResults |-> FALSE,
                   results |-> <<>>]

\* The /device outcomes drawn while the chart panel is explored: an error,
\* and an ok body with no record or with one newer record of device "A".
OutcomesBrief ==
  {o \in Outcomes :
     \/ o.kind = "otherError"
     \/ /\ o.kind = "ok" /\ o.body.status = "ok" /\ o.body.hasResults
        /\ o.body.results \in {<<>>, <<[device |-> "A", timestamp |-> 2]>>}}

\* The chart panel's events alone (the view is not moved meanwhile).
NextChart ==
  \/ Tick
  \/ \E obj \in 1..Len(items) : OnShowChart(obj)
  \/ PopupClose
  \/ \E c \in 1..Len(charts) : ChartLoad(c)
  \/ \E c \in 1..Len(charts) : StepBack(c)
  \/ \E request \in airInflight, outcome \in AirOutcomes : AirResponse(request, outcome)
  \/ \E c \in 1..Len(charts) : LabelTimer(c)

SpecChart == InitChart /\ [][NextChart]_vars

\* A timer that has been started fires: the delay(2000) of every label.
SpecChartFair ==
  SpecChart /\ \A c \in 1..MaxCharts : WF_vars(LabelTimer(c))

\* Every event of the dashboard, from the state with two devices drawn.
NextDashboard ==
  \/ NextChart
  \/ \E box \in Boxes : OnMoveEnd(box)
  \/ \E request \in inflight, outcome \in OutcomesBrief : DeviceResponse(request, outcome)

SpecDashboard == InitChart /\ [][NextDashboard]_vars

Next == NextDevices \/ NextChart

Spec == Init /\ [][Next]_vars

(***************************************************************************)
(* Properties of the device-list pipeline.                                  *)
(***************************************************************************)
Max(S) == CHOOSE x \in S : \A y \in S : y <= x

\* The requests that were dropped: sent, never answered, no longer awaited.
Cancelled == (1..issued) \ (answered \cup {r.gen : r \in inflight})

\* C1: for every identifier of which a record has been delivered to the
\* merge step, the registry holds a record of that identifier whose
\* timestamp is the largest delivered so far.
C1_RegistryHoldsMaxSeen ==
  \A id \in Ids :
    seen[id] # {} =>
      /\ id \in DOMAIN devices
      /\ items[devices[id]].device = id
      /\ items[devices[id]].timestamp = Max(seen[id])

\* The same for the identifiers that {} does not inherit: holds.
RegistryHoldsMaxSeenOwnKeys ==
  \A id \in Ids \ ObjectPrototypeKeys :
    seen[id] # {} =>
      /\ id \in DOMAIN devices
      /\ items[devices[id]].device = id
      /\ items[devices[id]].timestamp = Max(seen[id])

\* C2: a record whose timestamp is equal to or less than that of the record
\* stored for its identifier leaves the stored record in place, removes no
\* marker and adds none (the filter drops it, so onAddMarker is not called).
C2_StaleRecordIgnored ==
  \A i \in 1..Len(lastMerge) :
    LET e == lastMerge[i]
    IN (e.stored # 0 /\ e.timestamp <= items[e.stored].timestamp) =>
         /\ ~e.kept
         /\ e.after = e.stored
         /\ e.removed = 0
         /\ e.added = 0
         /\ (i = Len(lastMerge) =>
               devices[e.device] = e.stored /\ e.stored \in onMap)

\* C2 witness: a record with the stored record's timestamp, and one with a
\* smaller timestamp, have gone through the merge.
C2_Witness ==
  /\ \E i \in 1..Len(lastMerge) :
        lastMerge[i].stored # 0
        /\ lastMerge[i].timestamp = items[lastMerge[i].stored].timestamp
  /\ \E i \in 1..Len(lastMerge) :
        lastMerge[i].stored # 0
        /\ lastMerge[i].timestamp < items[lastMerge[i].stored].timestamp

\* C3 as stated: a request is never cancelled; until its response is
\* delivered to the pipeline it stays awaited, whatever was issued after it.
C3_NoCancellation == Cancelled = {}

\* C3 amended: issuing a newer request cancels the one in flight.  At most
\* the latest request is awaited, and a response is passed to the pipeline
\* only if no later request had been issued when it arrived.
C3_LatestRequestOnly ==
  /\ [](\A r \in inflight : r.gen = issued)
  /\ [][\A g \in answered' \ answered : g = issued]_vars

\* C3 witness: a request was superseded, and the response of the request
\* that superseded it has been merged.
C3_Witness ==
  /\ Cancelled # {}
  /\ issued \in answered
  /\ \E i \in 1..Len(lastMerge) : lastMerge[i].kept

\* A /device outcome that is a failure: a transport error, or a body with
\* status "error".
Failure(r) == r.kind \in {"httpError", "otherError"} \/ r.status = "error"

\* C6: when a /device fetch fails, no record is merged, the registry and
\* the markers are unchanged and no request is sent.
C6_FailureTreatedAsEmpty ==
  [][(answered' # answered /\ Failure(lastResp')) =>
       UNCHANGED <<items, devices, onMap, issued>>]_vars

\* C7: every moveend event publishes the bounding box and sends one new
\* /device request for it.
C7_EverySettleFetches ==
  [][settled' = settled + 1 =>
       /\ issued' = issued + 1
       /\ \E r \in inflight' : r.gen = issued' /\ r.box = bounds']_vars

(***************************************************************************)
(* Properties of the chart panel and of the requests.                       *)
(***************************************************************************)
\* The charts that have not been destroyed.
LiveCharts == {c \in 1..Len(charts) : ~charts[c].destroyed}

\* C4: a step-back click sets the window's end to the start held before the
\* click and the start to exactly that start minus 3 hours; so after k >= 1
\* step-backs on the chart of an open popup the window is 3 hours long and
\* starts k * 3 hours before the start the chart's load handler set.
C4_StepBackMovesThreeHours ==
  /\ [][\A c \in 1..Len(charts) :
          charts'[c].steps = charts[c].steps + 1 =>
            LET before == items[charts[c].target]
                after == items'[charts[c].target]
            IN /\ before.basetime.tag = "number"
               /\ after.endtime = before.basetime
               /\ after.basetime = Num(before.basetime.v - 10800000)]_vars
  /\ [](\A c \in LiveCharts :
          charts[c].steps >= 1 =>
            LET device == items[charts[c].target]
            IN /\ device.basetime.tag = "number"
               /\ device.endtime.tag = "number"
               /\ charts[c].initial.tag = "number"
               /\ device.endtime.v - device.basetime.v = 10800000
               /\ device.basetime.v = charts[c].initial.v - charts[c].steps * 10800000)

\* C5: at most one chart is ever created for a device; a later popup open
\* creates no second one.
C5_OneChartPerDevice ==
  \A c1, c2 \in 1..Len(charts) :
    items[charts[c1].target].device = items[charts[c2].target].device => c1 = c2

\* The requests in flight, of both endpoints, by issue time and token.
TokensInFlight ==
  {[endpoint |-> "/device", at |-> r.at, t |-> r.t] : r \in inflight}
  \cup {[endpoint |-> "/air", at |-> r.at, t |-> r.t] : r \in airInflight}

\* C8: the token t of a request is its issue time rounded down to a
\* multiple of 300000 ms; two requests carry the same t exactly when they
\* were issued in the same 5-minute bucket, whichever their endpoints.
C8_TokenIsFiveMinuteBucket ==
  /\ \A r \in TokensInFlight :
        r.t % 300000 = 0 /\ r.t <= r.at /\ r.at < r.t + 300000
  /\ \A r1, r2 \in TokensInFlight :
        (r1.t = r2.t) <=> (r1.at \div 300000 = r2.at \div 300000)

\* C8 witness: a /device and an /air request issued at different times of
\* one bucket, and two requests issued in different buckets, are in flight.
C8_Witness ==
  /\ \E d \in inflight, a \in airInflight :
        d.at # a.at /\ d.at \div 300000 = a.at \div 300000
  /\ \E r1, r2 \in TokensInFlight : r1.at \div 300000 # r2.at \div 300000

\* The point a reading puts on the series with index key.
PointOf(item, key) == <<item.timestamp + 32400000, MetricValue(item, key)>>

\* C9: after a successful /air response with readings R, each series of the
\* chart holds exactly the |R| points of R and none of an earlier response.
C9_SeriesHoldResponse ==
  (lastAir.kind = "ok" /\ lastAir.hasResults /\ lastAir.chart \in LiveCharts) =>
    \A k \in 1..4 :
      LET data == charts[lastAir.chart].series[k]
          R == lastAir.results
      IN /\ Len(data) = Len(R)
         /\ \A i \in 1..Len(R) : \E j \in 1..Len(data) : data[j] = PointOf(R[i], k - 1)
         /\ \A j \in 1..Len(data) : \E i \in 1..Len(R) : data[j] = PointOf(R[i], k - 1)

\* C10: the points of every series are in non-decreasing order of time.
C10_SeriesChronological ==
  \A c \in LiveCharts : \A k \in 1..4 :
    LET data == charts[c].series[k]
    IN \A i, j \in 1..Len(data) : i < j => data[i][1] <= data[j][1]

\* An /air outcome that is a failure: an error, or a body without results.
AirFailure(r) == r.kind = "error" \/ (r.kind = "ok" /\ ~r.hasResults)

C12_DefaultWindowThreeHours ==
  \A c \in LiveCharts :
    (charts[c].initial.tag = "number" /\ charts[c].steps = 0
       /\ c \notin loadTimers /\ items[charts[c].target].chart = c) =>
      LET device == items[charts[c].target]
      IN /\ device.endtime.tag = "number"
         /\ device.endtime.v - device.basetime.v = 10800000

\* C12 amended: opening a popup creates a chart, starts one load timer and
\* sends nothing; when the timer fires the window's start becomes
\* (now - 150 min) rounded down to the hour, its end becomes undefined, and
\* exactly one /air request is sent, with that start and no end parameter.
C12_DefaultWindowOpenEnded ==
  /\ [][Len(charts') > Len(charts) =>
          /\ airInflight' = airInflight
          /\ loadTimers' = loadTimers \cup {Len(charts')}]_vars
  /\ [][\A c \in 1..Len(charts) :
          (c \in loadTimers /\ c \notin loadTimers') =>
            LET device == items'[charts[c].target]
            IN /\ device.basetime.tag = "number"
               /\ device.basetime.v % 3600000 = 0
               /\ device.basetime.v <= now - 9000000
               /\ now - 9000000 < device.basetime.v + 3600000
               /\ device.endtime = Undefined
               /\ airIssued' = airIssued + 1
               /\ \E r \in airInflight' :
                     /\ airInflight' \ airInflight = {r}
                     /\ r.chart = c
                     /\ r.device = device.device
                     /\ r.start = device.basetime
                     /\ r.end = Undefined]_vars

\* C12 witness: the request of a load handler is in flight; its start is
\* the device's basetime, rounded to an hour below now - 150 min, and it
\* has no end.
C12_Witness ==
  \E r \in airInflight :
    /\ r.end = Undefined
    /\ r.start.tag = "number"
    /\ r.start = items[charts[r.chart].target].basetime
    /\ r.start = charts[r.chart].initial
    /\ r.start.v < r.at - 9000000

\* C13: in every step (view-settled event, /device response of any kind) an
\* identifier of the registry stays in the registry and the timestamp
\* stored for it does not decrease.
C13_RegistryMonotone ==
  [][\A id \in DOMAIN devices :
       /\ id \in DOMAIN devices'
       /\ items'[devices'[id]].timestamp >= items[devices[id]].timestamp]_vars

\* C13 witness: a stored record has been replaced by a newer one, and the
\* last response, with the registry still filled, was a failure.
C13_Witness ==
  /\ Failure(lastResp)
  /\ Cardinality(answered) >= 2
  /\ \E id \in DOMAIN devices :
        \E o \in 1..Len(items) :
          /\ o # devices[id]
          /\ items[o].device = id
          /\ items[o].timestamp < items[devices[id]].timestamp

\* C14: every identifier of the registry has exactly one marker on the map,
\* the marker of the record stored for it, and no other marker is on the
\* map; a kept record adds its own marker, and a replacement has removed the
\* marker of the record it replaces.
C14_OneMarkerPerDevice ==
  /\ \A id \in DOMAIN devices :
        /\ items[devices[id]].marker
        /\ {o \in onMap : items[o].device = id} = {devices[id]}
  /\ \A o \in onMap : items[o].device \in DOMAIN devices
  /\ \A i \in 1..Len(lastMerge) :
        LET e == lastMerge[i]
        IN e.kept =>
             /\ e.added = e.after
             /\ e.stored # 0 => (e.removed = e.stored /\ e.stored \notin onMap)

\* C14 witness: a record that once had a marker has been replaced; its
\* marker is off the map and its successor's marker is on it.
C14_Witness ==
  \E o \in 1..Len(items) :
    /\ items[o].marker
    /\ o \notin onMap
    /\ items[o].device \in DOMAIN devices
    /\ devices[items[o].device] \in onMap

\* C15: the device-list pipeline survives failures: when the last /device
\* response was a failure, the pipeline is still subscribed, and the next
\* view-settled event sends a /device request for its bounding box.
C15_PipelineSurvivesFailure ==
  /\ [][Failure(lastResp') => subscribed']_vars
  /\ [][(Failure(lastResp) /\ settled' = settled + 1) =>
          \E r \in inflight' : r.gen = issued + 1 /\ r.box = bounds']_vars

\* C16: once no /air request is outstanding (and no load handler pending),
\* the series of a live chart filled by the last response hold the readings
\* requested for the device's current window: the request answered last is
\* the one whose start and end are the device's basetime and endtime.
C16_SeriesShowCurrentWindow ==
  (/\ airInflight = {}
   /\ loadTimers = {}
   /\ lastAir.kind = "ok" /\ lastAir.hasResults /\ lastAir.results # <<>>
   /\ lastAir.chart \in LiveCharts
   /\ items[charts[lastAir.chart].target].chart = lastAir.chart) =>
    LET device == items[charts[lastAir.chart].target]
    IN /\ charts[lastAir.chart].series =
            [k \in 1..4 |-> SeriesData(lastAir.results, k - 1)]
       /\ lastAir.start = device.basetime
       /\ lastAir.end = IF Truthy(device.endtime) THEN device.endtime ELSE Undefined

====
